---- MODULE Spec2Model ----
(***************************************************************************)
(* Model of the WebRTC signaling server of src/server.js: the connection   *)
(* registry (users), the room directory (rooms), the socket.io transport   *)
(* rooms, the metrics counters and the event handlers that change them.    *)
(***************************************************************************)
EXTENDS Integers, Sequences, FiniteSets

\* ------------------------------------------------------------------ bounds
NumConns == 2
NumUsers == 2
NumRooms == 2
MaxMessages == 3
MaxErrors == 1
MaxRepeats == 1

SocketIds == <<"s1", "s2", "s3", "s4">>
UserNames == <<"alice", "bob", "carol">>
RoomNames == <<"R1", "R2", "R3">>

Conns == {SocketIds[i] : i \in 1..NumConns}
UserIds == {UserNames[i] : i \in 1..NumUsers}
RoomIds == {RoomNames[i] : i \in 1..NumRooms}

\* JavaScript values that are not names
Undefined == "<undefined>"
Null == "<null>"
Falsy(v) == v \in {Undefined, Null, ""}

\* ---------------------------------------------------------------- payloads
\* Every payload, inbound or outbound, is a record of one shape; a field the
\* JavaScript object does not have is Undefined.  isObject = FALSE is a payload
\* that cannot be destructured (undefined / null).
Payload(obj, roomId, userId, targetUserId, type, fromUserId, socketId, participants, message) ==
    [isObject |-> obj, roomId |-> roomId, userId |-> userId,
     targetUserId |-> targetUserId, type |-> type, fromUserId |-> fromUserId,
     socketId |-> socketId, participants |-> participants, message |-> message]

NoData == Payload(FALSE, Undefined, Undefined, Undefined, Undefined, Undefined, Undefined, {}, Undefined)
EmptyObject == [NoData EXCEPT !.isObject = TRUE]

NoInfo == [userId |-> Undefined, roomId |-> Undefined]

VARIABLES
    sockets,    \* io.sockets.sockets: socket id -> "new" | "connected" | "closed"
    adapter,    \* socket.io rooms each socket is in (socket.join)
    users,      \* Map socket.id -> {userId, roomId}, in insertion order
    rooms,      \* Map roomId -> Set of userIds
    metrics,    \* {connections, totalConnections, messages, errors}
    last,       \* the event handled last: name, socket, payload, users.get(socket.id) before it
    out,        \* the events the last handler emitted: [to, event, payload]
    joined,     \* history: the socket completed a join and has not disconnected since
    roomLog,    \* history: per room, the joins since the room was created
    regOrder    \* history: the registered sockets, the one that joined last at the end

vars == <<sockets, adapter, users, rooms, metrics, last, out, joined, roomLog, regOrder>>

\* ------------------------------------------------------------ Map helpers
\* users.get(socket.id)
RECURSIVE IndexOf(_, _, _)
IndexOf(m, sid, i) ==
    IF i > Len(m) THEN 0
    ELSE IF m[i].socketId = sid THEN i ELSE IndexOf(m, sid, i + 1)

UsersHas(m, sid) == IndexOf(m, sid, 1) # 0

UsersGet(m, sid) ==
    IF UsersHas(m, sid)
    THEN [userId |-> m[IndexOf(m, sid, 1)].userId, roomId |-> m[IndexOf(m, sid, 1)].roomId]
    ELSE NoInfo

\* users.set(socket.id, {userId, roomId}): an existing key keeps its position
UsersSet(m, sid, userId, roomId) ==
    IF UsersHas(m, sid)
    THEN [m EXCEPT ![IndexOf(m, sid, 1)] = [socketId |-> sid, userId |-> userId, roomId |-> roomId]]
    ELSE Append(m, [socketId |-> sid, userId |-> userId, roomId |-> roomId])

\* users.delete(socket.id)
UsersDeleteKeep(m, sid) == m

UsersDelete(m, sid) == SelectSeq(m, LAMBDA e : e.socketId # sid)

\* rooms.has / rooms.get(roomId).add(userId), creating the Set when absent
RoomsHas(r, roomId) == roomId \in DOMAIN r

RoomsAdd(r, roomId, userId) ==
    [k \in DOMAIN r \cup {roomId} |->
        IF k = roomId
        THEN (IF k \in DOMAIN r THEN r[k] ELSE {}) \cup {userId}
        ELSE r[k]]

\* room.delete(userId), then rooms.delete(roomId) when the Set is empty
RoomsLeaveKeepEmpty(r, roomId, userId) ==
    IF RoomsHas(r, roomId)
    THEN [r EXCEPT ![roomId] = r[roomId] \ {userId}]
    ELSE r

RoomsLeave(r, roomId, userId) ==
    IF RoomsHas(r, roomId)
    THEN IF r[roomId] \ {userId} = {}
         THEN [k \in DOMAIN r \ {roomId} |-> r[k]]
         ELSE [r EXCEPT ![roomId] = r[roomId] \ {userId}]
    ELSE r

\* ------------------------------------------------------- transport helpers
\* socket.to(roomId): every socket in the transport room except the sender
SocketTo(sid, roomId) ==
    {c \in Conns : sockets[c] = "connected" /\ roomId \in adapter[c] /\ c # sid}

\* findSocketByUserId(userId, roomId): first entry of users, in Map order
RECURSIVE FindFromAnyRoom(_, _, _, _)
FindFromAnyRoom(m, userId, roomId, i) ==
    IF i > Len(m) THEN Null
    ELSE IF m[i].userId = userId
         THEN (IF sockets[m[i].socketId] = "connected" THEN m[i].socketId ELSE Undefined)
         ELSE FindFromAnyRoom(m, userId, roomId, i + 1)

RECURSIVE FindFrom(_, _, _, _)
FindFrom(m, userId, roomId, i) ==
    IF i > Len(m) THEN Null
    ELSE IF m[i].userId = userId /\ m[i].roomId = roomId
         THEN (IF sockets[m[i].socketId] = "connected" THEN m[i].socketId ELSE Undefined)
         ELSE FindFrom(m, userId, roomId, i + 1)

findSocketByUserId(userId, roomId) == FindFrom(users, userId, roomId, 1)

Emit(to, event, payload) == [to |-> to, event |-> event, payload |-> payload]

\* ------------------------------------------------------------------ inputs
\* the value a client may put in fromUserId to pose as somebody else
SpoofedId == UserNames[1]

JoinData(roomId, userId) == [EmptyObject EXCEPT !.roomId = roomId, !.userId = userId]

JoinInputs ==
    {NoData} \cup {JoinData(r, u) : r \in RoomIds \cup {""}, u \in UserIds \cup {Undefined}}

SignalData(roomId, targetUserId, fromUserId) ==
    [EmptyObject EXCEPT !.roomId = roomId, !.targetUserId = targetUserId,
                        !.type = "chat", !.fromUserId = fromUserId]

SignalInputs ==
    {NoData} \cup {SignalData(r, t, f) : r \in RoomIds \cup {Undefined},
                                        t \in UserIds \cup {Undefined},
                                        f \in {Undefined, SpoofedId}}

Event(ev, sid, data) == [ev |-> ev, sid |-> sid, data |-> data, userInfo |-> UsersGet(users, sid)]

\* ------------------------------------------------------------- history
Fresh == [ok |-> TRUE, joins |-> {}]
Dirty == [ok |-> FALSE, joins |-> {}]

Without(order, sid) == SelectSeq(order, LAMBDA c : c # sid)

LogJoin(log, sid, userId) ==
    IF log.ok /\ (\A p \in log.joins : p[1] # sid /\ p[2] # userId)
    THEN [ok |-> TRUE, joins |-> log.joins \cup {<<sid, userId>>}]
    ELSE Dirty

\* -------------------------------------------------------------------- Init
Init ==
    /\ sockets = [c \in Conns |-> "new"]
    /\ adapter = [c \in Conns |-> {}]
    /\ users = <<>>
    /\ rooms = [k \in {} |-> {}]
    /\ metrics = [connections |-> 0, totalConnections |-> 0, messages |-> 0, errors |-> 0]
    /\ last = [ev |-> "init", sid |-> Undefined, data |-> NoData, userInfo |-> NoInfo]
    /\ out = {}
    /\ joined = [c \in Conns |-> FALSE]
    /\ roomLog = [r \in RoomIds |-> Fresh]
    /\ regOrder = <<>>

\* ---------------------------------------------------------------- handlers
\* io.on('connection'): the transport puts the socket in the room named by its id
Connection(sid) ==
    /\ sockets[sid] = "new"
    /\ sockets' = [sockets EXCEPT ![sid] = "connected"]
    /\ adapter' = [adapter EXCEPT ![sid] = {sid}]
    /\ metrics' = [metrics EXCEPT !.connections = @ + 1, !.totalConnections = @ + 1]
    /\ last' = Event("connection", sid, NoData)
    /\ out' = {}
    /\ UNCHANGED <<users, rooms, joined, roomLog, regOrder>>

\* the room-participants list: Array.from(room).filter(id => id !== userId)
ParticipantsWithSelf(room, userId) == room

Participants(room, userId) == {id \in room : id # userId}

\* if (!roomId || !userId)
MissingFieldRoomOnly(data) == Falsy(data.roomId)

MissingField(data) == Falsy(data.roomId) \/ Falsy(data.userId)

\* socket.on('join-room')
JoinRoom(sid, data) ==
    /\ sockets[sid] = "connected"
    /\ last' = Event("join-room", sid, data)
    /\ IF ~data.isObject
       THEN \* destructuring throws: the catch block
            /\ metrics.errors < MaxErrors
            /\ metrics' = [metrics EXCEPT !.errors = @ + 1]
            /\ out' = {Emit(sid, "error", [EmptyObject EXCEPT !.message = "Failed to join room"])}
            /\ UNCHANGED <<sockets, adapter, users, rooms, joined, roomLog, regOrder>>
       ELSE IF MissingField(data)
       THEN /\ out' = {Emit(sid, "error", [EmptyObject EXCEPT !.message = "Missing roomId or userId"])}
            /\ UNCHANGED <<sockets, adapter, users, rooms, metrics, joined, roomLog, regOrder>>
       ELSE /\ metrics.messages < MaxMessages
            /\ users' = UsersSet(users, sid, data.userId, data.roomId)
            /\ adapter' = [adapter EXCEPT ![sid] = @ \cup {data.roomId}]
            /\ rooms' = RoomsAdd(rooms, data.roomId, data.userId)
            /\ out' = {Emit(p, "user-joined",
                            [EmptyObject EXCEPT !.userId = data.userId, !.socketId = sid])
                          : p \in SocketTo(sid, data.roomId)}
                      \cup {Emit(sid, "room-participants",
                                 [EmptyObject EXCEPT !.participants =
                                     Participants(rooms'[data.roomId], data.userId)])}
            /\ metrics' = [metrics EXCEPT !.messages = @ + 1]
            /\ joined' = [joined EXCEPT ![sid] = TRUE]
            /\ roomLog' = [roomLog EXCEPT ![data.roomId] = LogJoin(@, sid, data.userId)]
            /\ regOrder' = Append(Without(regOrder, sid), sid)
            /\ UNCHANGED sockets

\* {...data, fromUserId: users.get(socket.id)?.userId}
StampKeepClient(sid, data) ==
    IF data.fromUserId # Undefined THEN data
    ELSE [data EXCEPT !.fromUserId = UsersGet(users, sid).userId]

Stamp(sid, data) == [data EXCEPT !.fromUserId = UsersGet(users, sid).userId]

\* the targeted branch shared by the four handlers
TargetedOrRoom(sid, event, data) ==
    LET targetSocket == findSocketByUserId(data.targetUserId, data.roomId)
    IN  IF Falsy(targetSocket)
        THEN {Emit(p, event, Stamp(sid, data)) : p \in SocketTo(sid, data.roomId)}
        ELSE {Emit(targetSocket, event, Stamp(sid, data))}

Targeted(sid, event, data) ==
    LET targetSocket == findSocketByUserId(data.targetUserId, data.roomId)
    IN  IF Falsy(targetSocket) THEN {}
        ELSE {Emit(targetSocket, event, Stamp(sid, data))}

\* the broadcast branch: socket.to(roomId).emit(...)
Broadcast(sid, event, data) ==
    {Emit(p, event, Stamp(sid, data)) : p \in SocketTo(sid, data.roomId)}

\* what each handler emits for a payload that destructures
SignalingMessageOut(sid, data) ==
    IF ~Falsy(data.targetUserId) THEN Targeted(sid, data.type, data)
    ELSE Broadcast(sid, data.type, data)

OfferOutBroadcast(sid, data) ==
    IF ~Falsy(data.targetUserId) THEN Targeted(sid, "offer", data)
    ELSE Broadcast(sid, "offer", data)

OfferOut(sid, data) ==
    IF ~Falsy(data.targetUserId) THEN Targeted(sid, "offer", data) ELSE {}

AnswerOut(sid, data) ==
    IF ~Falsy(data.targetUserId) THEN Targeted(sid, "answer", data) ELSE {}

IceCandidateOut(sid, data) ==
    IF ~Falsy(data.targetUserId) THEN Targeted(sid, "ice-candidate", data)
    ELSE Broadcast(sid, "ice-candidate", data)

\* the try/catch frame common to the four signaling handlers
RelayCountsBoth(ev, sid, data, emitted) ==
    /\ sockets[sid] = "connected"
    /\ last' = Event(ev, sid, data)
    /\ metrics.messages < MaxMessages
    /\ IF ~data.isObject
       THEN /\ metrics.errors < MaxErrors
            /\ metrics' = [metrics EXCEPT !.errors = @ + 1, !.messages = @ + 1]
            /\ out' = {}
       ELSE /\ metrics' = [metrics EXCEPT !.messages = @ + 1]
            /\ out' = emitted
    /\ UNCHANGED <<sockets, adapter, users, rooms, joined, roomLog, regOrder>>

RelayNotifyOnFault(ev, sid, data, emitted) ==
    /\ sockets[sid] = "connected"
    /\ last' = Event(ev, sid, data)
    /\ IF ~data.isObject
       THEN /\ metrics.errors < MaxErrors
            /\ metrics' = [metrics EXCEPT !.errors = @ + 1]
            /\ out' = {Emit(sid, "error", [EmptyObject EXCEPT !.message = "Failed to relay"])}
       ELSE /\ metrics.messages < MaxMessages
            /\ metrics' = [metrics EXCEPT !.messages = @ + 1]
            /\ out' = emitted
    /\ UNCHANGED <<sockets, adapter, users, rooms, joined, roomLog, regOrder>>

Relay(ev, sid, data, emitted) ==
    /\ sockets[sid] = "connected"
    /\ last' = Event(ev, sid, data)
    /\ IF ~data.isObject
       THEN /\ metrics.errors < MaxErrors
            /\ metrics' = [metrics EXCEPT !.errors = @ + 1]
            /\ out' = {}
       ELSE /\ metrics.messages < MaxMessages
            /\ metrics' = [metrics EXCEPT !.messages = @ + 1]
            /\ out' = emitted
    /\ UNCHANGED <<sockets, adapter, users, rooms, joined, roomLog, regOrder>>

SignalingMessage(sid, data) == Relay("signaling-message", sid, data, SignalingMessageOut(sid, data))
Offer(sid, data) == Relay("offer", sid, data, OfferOut(sid, data))
Answer(sid, data) == Relay("answer", sid, data, AnswerOut(sid, data))
IceCandidate(sid, data) == Relay("ice-candidate", sid, data, IceCandidateOut(sid, data))

\* socket.on('disconnect'): the transport has already taken the socket out of its rooms
OnDisconnectUnguarded(sid) ==
    /\ sockets' = [sockets EXCEPT ![sid] = "closed"]
    /\ adapter' = [adapter EXCEPT ![sid] = {}]
    /\ last' = Event("disconnect", sid, NoData)
    /\ joined' = [joined EXCEPT ![sid] = FALSE]
    /\ regOrder' = Without(regOrder, sid)
    /\ IF UsersHas(users, sid)
       THEN LET userInfo == UsersGet(users, sid)
            IN  /\ metrics' = [metrics EXCEPT !.connections = @ - 1]
                /\ rooms' = RoomsLeave(rooms, userInfo.roomId, userInfo.userId)
                /\ out' = {Emit(p, "user-left",
                                [EmptyObject EXCEPT !.userId = userInfo.userId, !.socketId = sid])
                              : p \in SocketTo(sid, userInfo.roomId)}
                /\ users' = UsersDelete(users, sid)
                /\ roomLog' = [roomLog EXCEPT ![userInfo.roomId] =
                                  IF RoomsHas(rooms', userInfo.roomId) THEN Dirty ELSE Fresh]
       ELSE \* destructuring of an absent userInfo throws: the catch block
            /\ metrics' = [metrics EXCEPT !.connections = @ - 1, !.errors = @ + 1]
            /\ out' = {}
            /\ UNCHANGED <<users, rooms, roomLog>>

OnDisconnect(sid) ==
    /\ sockets' = [sockets EXCEPT ![sid] = "closed"]
    /\ adapter' = [adapter EXCEPT ![sid] = {}]
    /\ metrics' = [metrics EXCEPT !.connections = @ - 1]
    /\ last' = Event("disconnect", sid, NoData)
    /\ joined' = [joined EXCEPT ![sid] = FALSE]
    /\ IF UsersHas(users, sid)
       THEN LET userInfo == UsersGet(users, sid)
            IN  /\ rooms' = RoomsLeave(rooms, userInfo.roomId, userInfo.userId)
                /\ out' = {Emit(p, "user-left",
                                [EmptyObject EXCEPT !.userId = userInfo.userId, !.socketId = sid])
                              : p \in SocketTo(sid, userInfo.roomId)}
                /\ users' = UsersDelete(users, sid)
                /\ roomLog' = [roomLog EXCEPT ![userInfo.roomId] =
                                  IF RoomsHas(rooms', userInfo.roomId) THEN Dirty ELSE Fresh]
       ELSE /\ out' = {}
            /\ UNCHANGED <<users, rooms, roomLog>>
    /\ regOrder' = Without(regOrder, sid)

Disconnect(sid) == sockets[sid] = "connected" /\ OnDisconnect(sid)

\* the disconnect handler run again for a socket that is already closed
DisconnectRepeat(sid) ==
    /\ sockets[sid] = "closed"
    /\ metrics.connections + MaxRepeats > 0
    /\ OnDisconnect(sid)

\* socket.on('error')
SocketError(sid) ==
    /\ sockets[sid] = "connected"
    /\ metrics.errors < MaxErrors
    /\ metrics' = [metrics EXCEPT !.errors = @ + 1]
    /\ last' = Event("error", sid, NoData)
    /\ out' = {}
    /\ UNCHANGED <<sockets, adapter, users, rooms, joined, roomLog, regOrder>>

\* ------------------------------------------------------- HTTP introspection
\* GET /rooms
GetRooms == {[roomId |-> r, userCount |-> Cardinality(rooms[r]), users |-> rooms[r]] : r \in DOMAIN rooms}

\* GET /rooms/:roomId: 200 with the room, or 404
GetRoom(roomId) ==
    IF RoomsHas(rooms, roomId)
    THEN [status |-> 200, roomId |-> roomId, userCount |-> Cardinality(rooms[roomId]), users |-> rooms[roomId]]
    ELSE [status |-> 404, roomId |-> roomId, userCount |-> 0, users |-> {}]

\* GET /metrics: the counters as they are at read time
GetMetrics == metrics

\* ------------------------------------------------------------ specification
Next ==
    \/ \E sid \in Conns : Connection(sid)
    \/ \E sid \in Conns, data \in JoinInputs : JoinRoom(sid, data)
    \/ \E sid \in Conns, data \in SignalInputs : SignalingMessage(sid, data)
    \/ \E sid \in Conns, data \in SignalInputs : Offer(sid, data)
    \/ \E sid \in Conns, data \in SignalInputs : Answer(sid, data)
    \/ \E sid \in Conns, data \in SignalInputs : IceCandidate(sid, data)
    \/ \E sid \in Conns : Disconnect(sid)
    \/ \E sid \in Conns : SocketError(sid)

Spec == Init /\ [][Next]_vars

\* the same server behind a transport that may signal a disconnect twice
NextRepeat ==
    \/ Next
    \/ \E sid \in Conns : DisconnectRepeat(sid)

SpecRepeat == Init /\ [][NextRepeat]_vars

TypeOK ==
    /\ \A c \in Conns : sockets[c] \in {"new", "connected", "closed"}
    /\ DOMAIN rooms \subseteq RoomIds
    /\ metrics.connections >= 0

\* ---------------------------------------------------------------- vocabulary
SignalEvents == {"signaling-message", "offer", "answer", "ice-candidate"}

\* the last event was a join-room that passed validation
JoinSucceeded ==
    /\ last.ev = "join-room"
    /\ last.data.isObject
    /\ ~Falsy(last.data.roomId)
    /\ ~Falsy(last.data.userId)

\* the last event was a signaling event whose payload destructured
Relayed == last.ev \in SignalEvents /\ last.data.isObject

\* some connection is registered as (userId, roomId)
Registered(userId, roomId) ==
    \E i \in 1..Len(users) : users[i].userId = userId /\ users[i].roomId = roomId

\* the connections registered in roomId
RegisteredIn(roomId) ==
    {users[i].socketId : i \in {j \in 1..Len(users) : users[j].roomId = roomId}}

Recipients(emitted) == {d.to : d \in emitted}

\* ------------------------------------------------------------------- claims
\* C1: every userId in a room's member set has a Registry entry with that
\* userId and that roomId.
C1_MembersRegistered ==
    \A r \in DOMAIN rooms : \A u \in rooms[r] : Registered(u, r)

\* C2: a second successful join by a joined connection replaces its Association
\* and retires the prior membership: the old userId stays in the old room only
\* if some connection is still registered under it there, and the old room is
\* not left empty.
C2_RejoinRetiresPrior ==
    (JoinSucceeded /\ last.userInfo # NoInfo) =>
        LET old == last.userInfo
            new == [userId |-> last.data.userId, roomId |-> last.data.roomId]
        IN  /\ UsersGet(users, last.sid) = new
            /\ (old # new /\ RoomsHas(rooms, old.roomId)) =>
                   /\ rooms[old.roomId] # {}
                   /\ old.userId \in rooms[old.roomId] => Registered(old.userId, old.roomId)

\* C3: no room of the Room Directory has an empty member set.
C3_NoEmptyRoom ==
    \A r \in DOMAIN rooms : rooms[r] # {}

\* a disconnect took the last member out of its room and the room is gone
C3_Witness ==
    /\ last.ev = "disconnect"
    /\ last.userInfo # NoInfo
    /\ ~RoomsHas(rooms, last.userInfo.roomId)
    /\ DOMAIN rooms # {}

\* C4: a connection has a Registry entry iff it completed a successful join and
\* has not disconnected since; it never has two entries, and a connection that
\* is not connected has none.
C4_RegistryIffJoined ==
    \A c \in Conns :
        /\ UsersHas(users, c) <=> joined[c]
        /\ Cardinality({i \in 1..Len(users) : users[i].socketId = c}) <= 1
        /\ sockets[c] # "connected" => ~UsersHas(users, c)

\* a joined connection disconnected and its entry is gone while another stays
C4_Witness ==
    /\ last.ev = "disconnect"
    /\ last.userInfo # NoInfo
    /\ ~UsersHas(users, last.sid)
    /\ Len(users) = 1

\* C5: a broadcast (no targetUserId) reaches exactly the connections registered
\* in the sender's own room, minus the sender.
C5_BroadcastRoomScoped ==
    (Relayed /\ last.ev \in {"signaling-message", "ice-candidate"}
             /\ Falsy(last.data.targetUserId)) =>
        Recipients(out) =
            IF last.userInfo = NoInfo THEN {}
            ELSE RegisteredIn(last.userInfo.roomId) \ {last.sid}

\* C6: every relayed payload carries the fromUserId the Registry holds for the
\* sender (undefined when it holds none), and the value the client put in
\* fromUserId changes neither the recipients nor the fromUserId delivered.
Spoof(data) == [data EXCEPT !.fromUserId = SpoofedId]
Delivered(emitted) == {<<d.to, d.event, d.payload.fromUserId>> : d \in emitted}

C6_FromUserIdFromRegistry ==
    /\ Relayed => \A d \in out : d.payload.fromUserId = UsersGet(users, last.sid).userId
    /\ \A c \in Conns, d \in SignalInputs :
           (sockets[c] = "connected" /\ d.isObject) =>
               /\ Delivered(SignalingMessageOut(c, d)) = Delivered(SignalingMessageOut(c, Spoof(d)))
               /\ Delivered(OfferOut(c, d)) = Delivered(OfferOut(c, Spoof(d)))
               /\ Delivered(AnswerOut(c, d)) = Delivered(AnswerOut(c, Spoof(d)))
               /\ Delivered(IceCandidateOut(c, d)) = Delivered(IceCandidateOut(c, Spoof(d)))

\* a joined sender posed as somebody else and the peer got the sender's real id
C6_Witness ==
    /\ Relayed
    /\ last.data.fromUserId = SpoofedId
    /\ last.userInfo.userId \in UserIds \ {SpoofedId}
    /\ \E d \in out : d.to # last.sid /\ d.payload.fromUserId = last.userInfo.userId

\* C7: a targeted message whose targetUserId is not registered in the given
\* room reaches nobody, draws no error event, adds one to messages and leaves
\* errors alone.
C7_TargetedMissDropped ==
    [][(/\ last'.ev \in SignalEvents
        /\ last'.data.isObject
        /\ ~Falsy(last'.data.targetUserId)
        /\ ~Registered(last'.data.targetUserId, last'.data.roomId))
       => (/\ out' = {}
           /\ metrics'.messages = metrics.messages + 1
           /\ metrics'.errors = metrics.errors)]_vars

\* a targeted message missed while a peer was in the transport room it named
C7_Witness ==
    /\ Relayed
    /\ ~Falsy(last.data.targetUserId)
    /\ ~Registered(last.data.targetUserId, last.data.roomId)
    /\ SocketTo(last.sid, last.data.roomId) # {}
    /\ out = {}
    /\ metrics.messages >= 2

\* C8 as stated: the four kinds resolve the same recipient set for the same
\* state, roomId and targetUserId, an absent targetUserId meaning broadcast.
C8_UniformRouting ==
    \A c \in Conns, d \in SignalInputs :
        (sockets[c] = "connected" /\ d.isObject) =>
            /\ Recipients(OfferOut(c, d)) = Recipients(SignalingMessageOut(c, d))
            /\ Recipients(AnswerOut(c, d)) = Recipients(SignalingMessageOut(c, d))
            /\ Recipients(IceCandidateOut(c, d)) = Recipients(SignalingMessageOut(c, d))

\* C8 amended: with a targetUserId the four kinds resolve the same recipient
\* set; without one signaling-message and ice-candidate resolve the same
\* broadcast set while offer and answer reach nobody.
C8_RoutingByKind ==
    \A c \in Conns, d \in SignalInputs :
        (sockets[c] = "connected" /\ d.isObject) =>
            /\ Recipients(IceCandidateOut(c, d)) = Recipients(SignalingMessageOut(c, d))
            /\ Recipients(AnswerOut(c, d)) = Recipients(OfferOut(c, d))
            /\ ~Falsy(d.targetUserId) =>
                   Recipients(OfferOut(c, d)) = Recipients(SignalingMessageOut(c, d))
            /\ Falsy(d.targetUserId) => Recipients(OfferOut(c, d)) = {}

\* an offer without targetUserId reached nobody although a peer was in the room
C8_Witness ==
    /\ Relayed
    /\ last.ev = "offer"
    /\ Falsy(last.data.targetUserId)
    /\ out = {}
    /\ Recipients(IceCandidateOut(last.sid, last.data)) # {}

\* C9: when distinct connections join one room under distinct userIds with no
\* departure in between, the room-participants list sent to a joiner holds
\* exactly the userIds that joined before it.
C9_ParticipantsArePriorJoiners ==
    (JoinSucceeded /\ roomLog[last.data.roomId].ok) =>
        LET earlier == {p[2] : p \in roomLog[last.data.roomId].joins
                                     \ {<<last.sid, last.data.userId>>}}
            lists == {d \in out : d.event = "room-participants"}
        IN  /\ Cardinality(lists) = 1
            /\ \A d \in lists : d.to = last.sid /\ d.payload.participants = earlier
            /\ last.data.userId \notin earlier

\* the second of two distinct joiners got the first one's userId
C9_Witness ==
    /\ JoinSucceeded
    /\ roomLog[last.data.roomId].ok
    /\ Cardinality(roomLog[last.data.roomId].joins) = 2
    /\ \E d \in out : d.event = "room-participants" /\ d.payload.participants # {}

\* C10: after the only connection registered in a room disconnects, the room is
\* absent from GET /rooms and GET /rooms/:roomId answers 404.
C10_SoleMemberLeavesRoomGone ==
    (last.ev = "disconnect" /\ last.userInfo # NoInfo
        /\ RegisteredIn(last.userInfo.roomId) = {}) =>
        /\ \A e \in GetRooms : e.roomId # last.userInfo.roomId
        /\ GetRoom(last.userInfo.roomId).status = 404

\* C11: the active-connections counter reported by GET /metrics is never below
\* zero, also when a disconnect is signaled twice for one connection.
C11_ConnectionsNeverNegative ==
    GetMetrics.connections >= 0

\* C12: a join-room whose roomId or userId is missing or empty sends one error
\* event, to the originating connection, and leaves the Registry, the Room
\* Directory and the transport rooms as they were.
C12_InvalidJoinChangesNothing ==
    [][(/\ last'.ev = "join-room"
        /\ Falsy(last'.data.roomId) \/ Falsy(last'.data.userId))
       => (/\ users' = users
           /\ rooms' = rooms
           /\ adapter' = adapter
           /\ Cardinality(out') = 1
           /\ \A d \in out' : d.to = last'.sid /\ d.event = "error")]_vars

\* a join without userId was refused while another connection was in the room
C12_Witness ==
    /\ last.ev = "join-room"
    /\ last.data.isObject
    /\ ~Falsy(last.data.roomId)
    /\ Falsy(last.data.userId)
    /\ RegisteredIn(last.data.roomId) # {}
    /\ ~UsersHas(users, last.sid)
    /\ \E d \in out : d.to = last.sid /\ d.event = "error"

\* C13: the disconnect of a joined connection (u, r) sends user-left naming u
\* to exactly the other connections registered in r, and removes its entry.
C13_UserLeftToRoomPeers ==
    (last.ev = "disconnect" /\ last.userInfo # NoInfo) =>
        /\ ~UsersHas(users, last.sid)
        /\ Recipients(out) = RegisteredIn(last.userInfo.roomId) \ {last.sid}
        /\ \A d \in out : d.event = "user-left" /\ d.payload.userId = last.userInfo.userId

\* C14: the disconnect of a connection that never joined changes neither the
\* Registry nor the Room Directory, emits nothing, leaves the errors counter
\* alone and leaves the active-connection count at or above zero.
C14_UnjoinedDisconnectNoOp ==
    [][(last'.ev = "disconnect" /\ ~joined[last'.sid])
       => (/\ users' = users
           /\ rooms' = rooms
           /\ out' = {}
           /\ metrics'.errors = metrics.errors
           /\ metrics'.messages = metrics.messages
           /\ metrics'.connections >= 0)]_vars

\* an unjoined connection disconnected while another one was in a room
C14_Witness ==
    /\ last.ev = "disconnect"
    /\ last.userInfo = NoInfo
    /\ sockets[last.sid] = "closed"
    /\ Len(users) >= 1
    /\ out = {}

\* C15: when several connections are registered under one (userId, roomId),
\* findSocketByUserId returns the one that registered most recently.
RegisteredAs(userId, roomId) ==
    {i \in 1..Len(regOrder) :
        UsersGet(users, regOrder[i]) = [userId |-> userId, roomId |-> roomId]}

MostRecent(userId, roomId) ==
    regOrder[CHOOSE i \in RegisteredAs(userId, roomId) :
                 \A j \in RegisteredAs(userId, roomId) : j <= i]

C15_MostRecentWins ==
    \A u \in UserIds, r \in RoomIds :
        Cardinality(RegisteredAs(u, r)) > 1 =>
            findSocketByUserId(u, r) = MostRecent(u, r)

\* C16 as stated: a targeted message reaches at most one connection, and never
\* the sender.
C16_TargetedNotToSender ==
    (Relayed /\ ~Falsy(last.data.targetUserId)) =>
        /\ Cardinality(out) <= 1
        /\ \A d \in out : d.to # last.sid

\* C16 amended: a targeted message reaches at most one connection, and that
\* connection is registered under the targetUserId and roomId of the payload
\* (it is the sender when the sender names itself).
C16_TargetedAtMostOne ==
    (Relayed /\ ~Falsy(last.data.targetUserId)) =>
        /\ Cardinality(out) <= 1
        /\ \A d \in out :
               UsersGet(users, d.to) =
                   [userId |-> last.data.targetUserId, roomId |-> last.data.roomId]

\* a sender named its own userId and room and got its message back
C16_Witness ==
    /\ Relayed
    /\ last.data.targetUserId = last.userInfo.userId
    /\ last.data.roomId = last.userInfo.roomId
    /\ \E d \in out : d.to = last.sid

\* C17: a signaling event whose payload cannot be destructured adds one to
\* errors, emits nothing, leaves the connection connected and leaves the
\* Registry and the Room Directory as they were.
C17_FaultCaughtSilently ==
    [][(last'.ev \in SignalEvents /\ ~last'.data.isObject)
       => (/\ metrics'.errors = metrics.errors + 1
           /\ metrics'.messages = metrics.messages
           /\ out' = {}
           /\ sockets'[last'.sid] = "connected"
           /\ sockets' = sockets
           /\ users' = users
           /\ rooms' = rooms)]_vars

\* a joined connection sent a signaling event without payload
C17_Witness ==
    /\ last.ev \in SignalEvents
    /\ ~last.data.isObject
    /\ last.userInfo # NoInfo
    /\ SocketTo(last.sid, last.userInfo.roomId) # {}
    /\ metrics.errors = 1
    /\ out = {}

\* C18: a relayed message reaches a connection only if the sender and that
\* connection are registered in the same room.
C18_RoomsIsolateSignaling ==
    Relayed =>
        \A d \in out :
            /\ last.userInfo # NoInfo
            /\ UsersHas(users, d.to)
            /\ UsersGet(users, d.to).roomId = last.userInfo.roomId

\* C19: once every connection that ever connected has disconnected, the
\* Registry and the Room Directory are empty.
C19_NothingSurvivesItsConnections ==
    ((\A c \in Conns : sockets[c] # "connected") /\ (\E c \in Conns : sockets[c] = "closed")) =>
        /\ users = <<>>
        /\ DOMAIN rooms = {}

\* C20: for every Registry entry (userId, roomId) the room exists and holds
\* the userId.
C20_RegisteredAreMembers ==
    \A i \in 1..Len(users) :
        /\ RoomsHas(rooms, users[i].roomId)
        /\ users[i].userId \in rooms[users[i].roomId]

\* C21: handling a signaling event, delivered, dropped or faulted, leaves the
\* Registry, the Room Directory and the active and cumulative connection
\* counters as they were and adds one to exactly one of messages and errors.
C21_RoutingReadOnly ==
    [][(last'.ev \in SignalEvents)
       => (/\ users' = users
           /\ rooms' = rooms
           /\ metrics'.connections = metrics.connections
           /\ metrics'.totalConnections = metrics.totalConnections
           /\ \/ metrics'.messages = metrics.messages + 1 /\ metrics'.errors = metrics.errors
              \/ metrics'.messages = metrics.messages /\ metrics'.errors = metrics.errors + 1)]_vars

\* a message was delivered in a run that also saw a fault, with a room in place
C21_Witness ==
    /\ Relayed
    /\ out # {}
    /\ metrics.errors = 1
    /\ Len(users) >= 1
    /\ DOMAIN rooms # {}

====
